---- MODULE Spec2Model ----
(***************************************************************************)
(* Bit-banged SPI driver for the 25LC040A EEPROM.                          *)
(*                                                                         *)
(*   SPIBitBangingHelper::transferByte   the MSB-first byte transfer       *)
(*   EEPROM25LC040A                      the command layer                 *)
(*                                                                         *)
(* The command layer runs as a sequential program: pc is its call stack    *)
(* (the label being executed first), L its parameters and locals, and each *)
(* action is one driver call (cs_low, one transferByte, cs_high, delay_us) *)
(* or one piece of loop control.  The device at the other end of the bus   *)
(* (dev) is the environment: a 512-byte array with 16-byte page buffer, a  *)
(* write-enable latch and a write-in-progress flag.                        *)
(***************************************************************************)
EXTENDS Integers, Sequences, FiniteSets, TLC

VARIABLES
    pc,         \* call stack of labels, current label first; <<>> = no call running
    L,          \* parameters and locals of the member functions, one record each
    ret,        \* what the function that returned last returned: [byte, word]
    cs,         \* chip-select asserted (line LOW)
    dev,        \* the EEPROM device
    prevFrame,  \* [op, n]: opcode and byte count of the last completed frame
    wframes,    \* <<addr, count>> of each WRITE frame of the running public call
    nReads,     \* status reads of the running waitUntilWriteComplete
    nDelays,    \* delay_us calls of the running waitUntilWriteComplete
    lastDelay,  \* argument of its last delay_us call
    fault,      \* driver-call protocol breaches seen on the bus
    drv,        \* driver calls of the running public call: [any, frames, rx]
    call,       \* the public call running or returned last
    prev,       \* the public call before it
    pre,        \* device memory when the running public call started
    ncalls,     \* public calls made so far
    xf,         \* transferByte's own loop: [tx, rx, bit, step]
    mosi,       \* level last driven on MOSI
    xlog,       \* driver calls made by the running transferByte
    script0     \* the status sequence the stub was loaded with

vars == <<pc, L, ret, cs, dev, prevFrame, wframes, nReads, nDelays, lastDelay,
          fault, drv, call, prev, pre, ncalls, xf, mosi, xlog, script0>>
xvars == <<xf, mosi, xlog>>

----------------------------------------------------------------------------
(* Program constants.                                                      *)

CAPACITY_BYTES == 512
PAGE_SIZE == 16
OP_READ == 3
OP_WRITE == 2
OP_WREN == 6
OP_RDSR == 5
WIP_MASK == 1
POLL_DELAY_US == 10
DUMMY == 255
MAX_BITS == 32

(* Bounds of the exploration.                                              *)
MaxBusy == 1      \* status reads a committed write may stay busy for
MaxLen == 20      \* longest array written or read
MaxCalls == 2     \* public calls in one run
MaxPolls == 3     \* longest status sequence loaded into the stub
MaxSpin == 4      \* bytes a bit-field loop may run past its start address

Byte == 0..255
Min(a, b) == IF a < b THEN a ELSE b

----------------------------------------------------------------------------
(* Fixed-width arithmetic.  A uint8_t is a number in 0..255.  A uint32_t   *)
(* is the set of the positions (0..31) of its 1 bits.                      *)

RECURSIVE Pow2(_)
Pow2(n) == IF n = 0 THEN 1 ELSE 2 * Pow2(n - 1)

Bit(x, i) == (x \div Pow2(i)) % 2

\* The positions of the 1 bits of every byte, and the byte of every set of
\* positions within 0..7.
BitsTable == [b \in Byte |-> {i \in 0..7 : Bit(b, i) = 1}]
ByteTable ==
    [S \in SUBSET (0..7) |->
        LET acc[n \in 0..8] ==
                IF n = 0 THEN 0
                ELSE acc[n - 1] + (IF (n - 1) \in S THEN Pow2(n - 1) ELSE 0)
        IN  acc[8]]

BitsOf(b) == BitsTable[b]
SumPow2(S) == ByteTable[S]

\* static_cast<uint8_t>(x) of a 32-bit value
ByteOf(S) == SumPow2(S \cap 0..7)

AndByte(a, b) == SumPow2(BitsOf(a) \cap BitsOf(b))
OrByte(a, b) == SumPow2(BitsOf(a) \cup BitsOf(b))
NotByte(a) == 255 - a

Shl32(S, k) == {i + k : i \in {j \in S : j + k < 32}}
Shr32(S, k) == {i - k : i \in {j \in S : j >= k}}
U32(b) == BitsOf(b)

----------------------------------------------------------------------------
(* SPIBitBangingHelper::transferByte.                                      *)

\* const bool mosi_value = (tx_byte >> bit) & 0x01u;
MosiBit_LsbFirst(tx, bit) == Bit(tx, 7 - bit)
MosiBit(tx, bit) == Bit(tx, bit)

\* rx_byte = static_cast<uint8_t>((rx_byte << 1) | (miso_value ? 1u : 0u));
RxShift_LsbFirst(rx, miso) == (rx \div 2) + (128 * miso)
RxShift(rx, miso) == ((rx * 2) % 256) + miso

\* The whole loop, bit = 7 down to 0, against the MISO levels the device
\* drives: rx[n] is rx_byte after n iterations, the n-th of which (bit = 8 - n)
\* samples misoBits[n].
TransferLoop(misoBits) ==
    LET rx[n \in 0..8] == IF n = 0 THEN 0 ELSE RxShift(rx[n - 1], misoBits[n])
    IN  rx[8]

\* MOSI levels of one transferByte(tx), in the order they are driven.
MosiSeq(tx) == [k \in 1..8 |-> MosiBit(tx, 8 - k)]

\* The device end of the shift register: first bit on the wire is bit 7.
DevAssemble(bits) == SumPow2({8 - k : k \in {j \in 1..8 : bits[j] = 1}})
DevShiftOut(b) == [k \in 1..8 |-> Bit(b, 8 - k)]

\* What the device receives from, and the helper returns for, transferByte(tx)
\* when the device answers with byte b.
WireByte(tx) == DevAssemble(MosiSeq(tx))
TransferByte(b) == TransferLoop(DevShiftOut(b))

----------------------------------------------------------------------------
(* The device on the bus: 512 cells, of which mem holds those written so   *)
(* far and every other one reads as fill.  frame is the bytes received in  *)
(* the current chip-select assertion, ptr the internal address pointer,    *)
(* wel the write-enable latch, wipQ the status bytes the next status reads *)
(* report while a write cycle runs, stuck a write cycle that never ends    *)
(* (only a faulty device starts one).                                      *)

NoMem == [a \in {} |-> 0]

MemAt(d, a) == IF a \in DOMAIN d.mem THEN d.mem[a] ELSE d.fill

\* 16-bit address field, of which the device decodes the low 9 bits.
DevAddr(hi, lo) == ((hi * 256) + lo) % CAPACITY_BYTES

\* Status register: bit 0 = WIP, bit 1 = WEL.
DevStatus(d) == IF d.wipQ # <<>> THEN Head(d.wipQ)
                ELSE IF d.stuck THEN 1
                ELSE IF d.wel THEN 2 ELSE 0

DevBusy(d) == Bit(DevStatus(d), 0) = 1

\* The byte the device shifts out during the next transfer.
DevOut(d) ==
    LET f == d.frame IN
    IF Len(f) >= 1 /\ f[1] = OP_RDSR THEN DevStatus(d)
    ELSE IF Len(f) >= 3 /\ f[1] = OP_READ /\ ~DevBusy(d) THEN MemAt(d, d.ptr)
    ELSE 255

\* The device after it received byte b.
DevIn(d, b) ==
    LET f == d.frame IN
    [d EXCEPT
       !.frame = Append(f, b),
       !.ptr = IF Len(f) = 2 THEN DevAddr(f[2], b)
               ELSE IF Len(f) >= 3 /\ f[1] = OP_READ
                    THEN (d.ptr + 1) % CAPACITY_BYTES
               ELSE d.ptr,
       !.wipQ = IF Len(f) >= 1 /\ f[1] = OP_RDSR /\ d.wipQ # <<>>
                THEN Tail(d.wipQ) ELSE d.wipQ]

\* A page write of data starting at cell start: the address wraps inside the
\* 16-byte page, a cell written twice keeps the later byte.
PageCell(start, i) ==
    (start - (start % PAGE_SIZE)) + (((start % PAGE_SIZE) + (i - 1)) % PAGE_SIZE)

PageWrite(d, start, data) ==
    LET idx == 1..Len(data)
        touched == {PageCell(start, i) : i \in idx}
        last(a) == CHOOSE i \in idx :
                      /\ PageCell(start, i) = a
                      /\ \A j \in idx : j > i => PageCell(start, j) # a
    IN [a \in (DOMAIN d.mem) \cup touched |->
           IF a \in touched THEN data[last(a)] ELSE d.mem[a]]

\* Status sequences a write cycle may show: busy for 0..MaxBusy status reads.
BusyScripts == {[i \in 1..k |-> 3] : k \in 0..MaxBusy}

\* The devices possible after chip-select is deasserted: the frame received
\* is executed.
DevDeselect(d) ==
    LET f == d.frame
        idle == [d EXCEPT !.frame = <<>>]
    IN
    IF f = <<OP_WREN>> /\ ~DevBusy(d)
      THEN {[idle EXCEPT !.wel = TRUE]}
    ELSE IF Len(f) >= 4 /\ f[1] = OP_WRITE /\ d.wel /\ ~DevBusy(d)
      THEN LET m == PageWrite(d, DevAddr(f[2], f[3]), SubSeq(f, 4, Len(f)))
           IN {[idle EXCEPT !.mem = m, !.wel = FALSE, !.wipQ = q] :
                  q \in BusyScripts}
               \cup (IF d.faulty
                     THEN {[idle EXCEPT !.mem = m, !.wel = FALSE, !.stuck = TRUE]}
                     ELSE {})
    ELSE {idle}

----------------------------------------------------------------------------
(* The driver calls, as the bus and the device see them.                   *)

bus == <<cs, dev, prevFrame, wframes, fault, drv>>
counters == <<nReads, nDelays, lastDelay>>

\* What is recorded of the driver calls of the running public call: any, whether
\* there was one; frames, the bytes sent in each frame closed by cs_high (a
\* status read that repeats the status read before it is recorded once); rx,
\* the bytes received since the last cs_low.
Drv0 == [any |-> FALSE, frames |-> <<>>, rx |-> <<>>]
LogFrame(frames, f) ==
    IF f = <<>> THEN frames
    ELSE IF f[1] = OP_RDSR /\ frames # <<>> /\ frames[Len(frames)] = f THEN frames
    ELSE Append(frames, f)

CountCap == MaxPolls + 1
Inc(n) == Min(n + 1, CountCap)

\* driver().cs_low()
BusCsLow ==
    /\ cs' = TRUE
    /\ dev' = [dev EXCEPT !.frame = <<>>]
    /\ fault' = IF cs THEN fault \cup {"cs_low while asserted"} ELSE fault
    /\ drv' = [drv EXCEPT !.any = TRUE, !.rx = <<>>]
    /\ UNCHANGED <<prevFrame, wframes>>

\* The byte transferByte returns now.
Rx == TransferByte(IF cs THEN DevOut(dev) ELSE 255)

\* spi_.transferByte(tx)
BusXfer(tx) ==
    /\ dev' = IF cs THEN DevIn(dev, WireByte(tx)) ELSE dev
    /\ fault' = IF cs THEN fault ELSE fault \cup {"transfer while deasserted"}
    /\ drv' = [drv EXCEPT !.any = TRUE, !.rx = Append(drv.rx, Rx)]
    /\ UNCHANGED <<cs, prevFrame, wframes>>

\* driver().cs_high()
BusCsHigh ==
    LET f == dev.frame IN
    /\ cs' = FALSE
    /\ dev' \in (IF cs THEN DevDeselect(dev) ELSE {dev})
    /\ prevFrame' = IF cs /\ f # <<>> THEN [op |-> f[1], n |-> Len(f)]
                    ELSE prevFrame
    /\ wframes' = IF cs /\ Len(f) >= 3 /\ f[1] = OP_WRITE
                  THEN Append(wframes, [addr |-> (f[2] * 256) + f[3],
                                        data |-> SubSeq(f, 4, Len(f))])
                  ELSE wframes
    /\ fault' = IF cs THEN fault ELSE fault \cup {"cs_high while deasserted"}
    /\ drv' = [drv EXCEPT !.any = TRUE,
                          !.frames = IF cs THEN LogFrame(drv.frames, f)
                                     ELSE drv.frames]

\* driver().delay_us(us)
BusDelay(us) ==
    /\ nDelays' = Inc(nDelays)
    /\ lastDelay' = us
    /\ fault' = IF cs THEN fault \cup {"delay while asserted"} ELSE fault
    /\ drv' = [drv EXCEPT !.any = TRUE]
    /\ UNCHANGED <<cs, dev, prevFrame, wframes>>

----------------------------------------------------------------------------
(* Control flow.                                                           *)

Top == IF pc = <<>> THEN "none" ELSE Head(pc)
At(l) == pc # <<>> /\ Head(pc) = l
Goto(l) == pc' = <<l>> \o Tail(pc)
CallFn(entry, back) == pc' = <<entry, back>> \o Tail(pc)
Return == pc' = Tail(pc)

\* A public call that returns to its caller outside the class is finished.
Finish(field, v) == call' = IF Len(pc) = 1
                            THEN [call EXCEPT !.done = TRUE, ![field] = v]
                            ELSE call
nocall == <<prev, pre, ncalls, xvars, script0>>

Hi8(address) == (address \div 256) % 256
Lo8(address) == address % 256

----------------------------------------------------------------------------
(* EEPROM25LC040A::readByte(address)                                       *)

RbCsLow ==
    /\ At("rb_cs_low")
    /\ BusCsLow
    /\ Goto("rb_op")
    /\ UNCHANGED <<L, ret, counters, call, nocall>>

RbOp ==
    /\ At("rb_op")
    /\ BusXfer(OP_READ)
    /\ Goto("rb_hi")
    /\ UNCHANGED <<L, ret, counters, call, nocall>>

RbHi ==
    /\ At("rb_hi")
    /\ BusXfer(Hi8(L.rb.address))
    /\ Goto("rb_lo")
    /\ UNCHANGED <<L, ret, counters, call, nocall>>

RbLo ==
    /\ At("rb_lo")
    /\ BusXfer(Lo8(L.rb.address))
    /\ Goto("rb_data")
    /\ UNCHANGED <<L, ret, counters, call, nocall>>

RbData ==
    /\ At("rb_data")
    /\ L' = [L EXCEPT !.rb.value = Rx]
    /\ BusXfer(DUMMY)
    /\ Goto("rb_cs_high")
    /\ UNCHANGED <<ret, counters, call, nocall>>

RbCsHigh ==
    /\ At("rb_cs_high")
    /\ BusCsHigh
    /\ ret' = [ret EXCEPT !.byte = L.rb.value]
    /\ Finish("result", L.rb.value)
    /\ Return
    /\ UNCHANGED <<L, counters, nocall>>

----------------------------------------------------------------------------
(* EEPROM25LC040A::writeEnable()                                           *)

WeCsLow ==
    /\ At("we_cs_low")
    /\ BusCsLow
    /\ Goto("we_op")
    /\ UNCHANGED <<L, ret, counters, call, nocall>>

WeOp ==
    /\ At("we_op")
    /\ BusXfer(OP_WREN)
    /\ Goto("we_cs_high")
    /\ UNCHANGED <<L, ret, counters, call, nocall>>

WeCsHigh ==
    /\ At("we_cs_high")
    /\ BusCsHigh
    /\ Return
    /\ UNCHANGED <<L, ret, counters, call, nocall>>

----------------------------------------------------------------------------
(* EEPROM25LC040A::readStatus()                                            *)

RsCsLow ==
    /\ At("rs_cs_low")
    /\ BusCsLow
    /\ Goto("rs_op")
    /\ UNCHANGED <<L, ret, counters, call, nocall>>

RsOp ==
    /\ At("rs_op")
    /\ BusXfer(OP_RDSR)
    /\ Goto("rs_data")
    /\ UNCHANGED <<L, ret, counters, call, nocall>>

RsData ==
    /\ At("rs_data")
    /\ L' = [L EXCEPT !.rs.status = Rx]
    /\ BusXfer(DUMMY)
    /\ nReads' = Inc(nReads)
    /\ Goto("rs_cs_high")
    /\ UNCHANGED <<ret, nDelays, lastDelay, call, nocall>>

RsCsHigh_NoDeassert ==
    /\ At("rs_cs_high")
    /\ ret' = [ret EXCEPT !.byte = L.rs.status]
    /\ Return
    /\ UNCHANGED <<L, bus, counters, call, nocall>>

RsCsHigh ==
    /\ At("rs_cs_high")
    /\ BusCsHigh
    /\ ret' = [ret EXCEPT !.byte = L.rs.status]
    /\ Return
    /\ UNCHANGED <<L, counters, call, nocall>>

----------------------------------------------------------------------------
(* EEPROM25LC040A::waitUntilWriteComplete()                                *)

\* uint8_t status = readStatus();
WuPoll ==
    /\ At("wu_poll")
    /\ CallFn("rs_cs_low", "wu_test")
    /\ UNCHANGED <<L, ret, bus, counters, call, nocall>>

\* if ((status & WIP_MASK) == 0) break;
WriteDone_ZeroStatus(status) == status = 0
WriteDone(status) == AndByte(status, WIP_MASK) = 0

WuBreak ==
    /\ At("wu_test")
    /\ WriteDone(ret.byte)
    /\ Return
    /\ nReads' = 0
    /\ nDelays' = 0
    /\ lastDelay' = 0
    /\ UNCHANGED <<L, ret, bus, call, nocall>>

WuBusy_GivesUp ==
    /\ At("wu_test")
    /\ ~WriteDone(ret.byte)
    /\ IF nReads >= 2 THEN Return ELSE Goto("wu_delay")
    /\ UNCHANGED <<L, ret, bus, counters, call, nocall>>

WuBusy ==
    /\ At("wu_test")
    /\ ~WriteDone(ret.byte)
    /\ Goto("wu_delay")
    /\ UNCHANGED <<L, ret, bus, counters, call, nocall>>

\* spi_.driver().delay_us(10);
WuDelay ==
    /\ At("wu_delay")
    /\ BusDelay(POLL_DELAY_US)
    /\ Goto("wu_poll")
    /\ UNCHANGED <<L, ret, nReads, call, nocall>>

----------------------------------------------------------------------------
(* EEPROM25LC040A::writeByte(address, value)                               *)

WbEnable ==
    /\ At("wb_enable")
    /\ CallFn("we_cs_low", "wb_cs_low")
    /\ UNCHANGED <<L, ret, bus, counters, call, nocall>>

WbCsLow ==
    /\ At("wb_cs_low")
    /\ BusCsLow
    /\ Goto("wb_op")
    /\ UNCHANGED <<L, ret, counters, call, nocall>>

WbOp ==
    /\ At("wb_op")
    /\ BusXfer(OP_WRITE)
    /\ Goto("wb_hi")
    /\ UNCHANGED <<L, ret, counters, call, nocall>>

WbHi ==
    /\ At("wb_hi")
    /\ BusXfer(Hi8(L.wb.address))
    /\ Goto("wb_lo")
    /\ UNCHANGED <<L, ret, counters, call, nocall>>

WbLo_SendsHigh ==
    /\ At("wb_lo")
    /\ BusXfer(Hi8(L.wb.address))
    /\ Goto("wb_data")
    /\ UNCHANGED <<L, ret, counters, call, nocall>>

WbLo ==
    /\ At("wb_lo")
    /\ BusXfer(Lo8(L.wb.address))
    /\ Goto("wb_data")
    /\ UNCHANGED <<L, ret, counters, call, nocall>>

WbData ==
    /\ At("wb_data")
    /\ BusXfer(L.wb.value)
    /\ Goto("wb_cs_high")
    /\ UNCHANGED <<L, ret, counters, call, nocall>>

WbCsHigh ==
    /\ At("wb_cs_high")
    /\ BusCsHigh
    /\ Goto("wb_wait")
    /\ UNCHANGED <<L, ret, counters, call, nocall>>

WbWait_Skipped ==
    /\ At("wb_wait")
    /\ Goto("wb_ret")
    /\ UNCHANGED <<L, ret, bus, counters, call, nocall>>

WbWait ==
    /\ At("wb_wait")
    /\ CallFn("wu_poll", "wb_ret")
    /\ UNCHANGED <<L, ret, bus, counters, call, nocall>>

WbRet ==
    /\ At("wb_ret")
    /\ Finish("result", 0)
    /\ Return
    /\ UNCHANGED <<L, ret, bus, counters, nocall>>

----------------------------------------------------------------------------
(* Buffers: a pointer is null or points at data[1..n] (buffer[i] is        *)
(* data[i + 1]).                                                           *)

NullBuf == [null |-> TRUE, data |-> <<>>]
BufOf(seq) == [null |-> FALSE, data |-> seq]

\* if (buffer == nullptr || length == 0)
NothingToDo_NullOnly(buffer, length) == buffer.null
NothingToDo(buffer, length) == buffer.null \/ length = 0

\* buffer[idx]: past the end of the array any byte may be read.
SrcByte(buffer, idx) ==
    IF (idx + 1) \in DOMAIN buffer.data THEN {buffer.data[idx + 1]} ELSE {0, 238}

----------------------------------------------------------------------------
(* EEPROM25LC040A::readArray(address, buffer, length)                      *)

RaReject ==
    /\ At("ra_guard")
    /\ NothingToDo(L.ra.buffer, L.ra.length)
    /\ Finish("resultBuf", L.ra.buffer.data)
    /\ Return
    /\ UNCHANGED <<L, ret, bus, counters, nocall>>

RaCsLow ==
    /\ At("ra_guard")
    /\ ~NothingToDo(L.ra.buffer, L.ra.length)
    /\ BusCsLow
    /\ Goto("ra_op")
    /\ UNCHANGED <<L, ret, counters, call, nocall>>

RaOp ==
    /\ At("ra_op")
    /\ BusXfer(OP_READ)
    /\ Goto("ra_hi")
    /\ UNCHANGED <<L, ret, counters, call, nocall>>

RaHi_SendsLow ==
    /\ At("ra_hi")
    /\ BusXfer(Lo8(L.ra.address))
    /\ Goto("ra_lo")
    /\ UNCHANGED <<L, ret, counters, call, nocall>>

RaHi ==
    /\ At("ra_hi")
    /\ BusXfer(Hi8(L.ra.address))
    /\ Goto("ra_lo")
    /\ UNCHANGED <<L, ret, counters, call, nocall>>

RaLo ==
    /\ At("ra_lo")
    /\ BusXfer(Lo8(L.ra.address))
    /\ L' = [L EXCEPT !.ra.i = 0]
    /\ Goto("ra_loop")
    /\ UNCHANGED <<ret, counters, call, nocall>>

\* buffer[i] = spi_.transferByte(0xFF);
RaData ==
    /\ At("ra_loop")
    /\ L.ra.i < L.ra.length
    /\ L' = [L EXCEPT !.ra.buffer.data[L.ra.i + 1] = Rx, !.ra.i = L.ra.i + 1]
    /\ BusXfer(DUMMY)
    /\ UNCHANGED <<pc, ret, counters, call, nocall>>

RaCsHigh ==
    /\ At("ra_loop")
    /\ ~(L.ra.i < L.ra.length)
    /\ BusCsHigh
    /\ Finish("resultBuf", L.ra.buffer.data)
    /\ Return
    /\ UNCHANGED <<L, ret, counters, nocall>>

----------------------------------------------------------------------------
(* EEPROM25LC040A::writeArray(address, buffer, length)                     *)

WaReject ==
    /\ At("wa_guard")
    /\ NothingToDo(L.wa.buffer, L.wa.length)
    /\ Finish("result", 0)
    /\ Return
    /\ UNCHANGED <<L, ret, bus, counters, nocall>>

WaStart ==
    /\ At("wa_guard")
    /\ ~NothingToDo(L.wa.buffer, L.wa.length)
    /\ L' = [L EXCEPT !.wa.remaining = L.wa.length, !.wa.offset = 0]
    /\ Goto("wa_loop")
    /\ UNCHANGED <<ret, bus, counters, call, nocall>>

\* std::size_t chunk = (remaining < bytes_in_page) ? remaining : bytes_in_page;
Chunk_WholePage(address, remaining) == Min(remaining, PAGE_SIZE)
Chunk_HalfPage(address, remaining) ==
    Min(Min(remaining, PAGE_SIZE - (address % PAGE_SIZE)), PAGE_SIZE \div 2)
Chunk_OfPageOffset(address, remaining) ==
    LET page_offset == address % PAGE_SIZE
    IN IF remaining < page_offset THEN remaining ELSE page_offset
Chunk(address, remaining) ==
    LET page_offset == address % PAGE_SIZE
        bytes_in_page == PAGE_SIZE - page_offset
    IN IF remaining < bytes_in_page THEN remaining ELSE bytes_in_page

\* while (remaining > 0) { ...; writeEnable();
WaChunk_EnableOnce ==
    /\ At("wa_loop")
    /\ L.wa.remaining > 0
    /\ L' = [L EXCEPT !.wa.chunk = Chunk(L.wa.address, L.wa.remaining)]
    /\ IF L.wa.offset = 0 THEN CallFn("we_cs_low", "wa_cs_low")
       ELSE Goto("wa_cs_low")
    /\ UNCHANGED <<ret, bus, counters, call, nocall>>

WaChunk ==
    /\ At("wa_loop")
    /\ L.wa.remaining > 0
    /\ L' = [L EXCEPT !.wa.chunk = Chunk(L.wa.address, L.wa.remaining)]
    /\ CallFn("we_cs_low", "wa_cs_low")
    /\ UNCHANGED <<ret, bus, counters, call, nocall>>

WaReturn ==
    /\ At("wa_loop")
    /\ ~(L.wa.remaining > 0)
    /\ Finish("result", 0)
    /\ Return
    /\ UNCHANGED <<L, ret, bus, counters, nocall>>

WaCsLow ==
    /\ At("wa_cs_low")
    /\ BusCsLow
    /\ Goto("wa_op")
    /\ UNCHANGED <<L, ret, counters, call, nocall>>

WaOp ==
    /\ At("wa_op")
    /\ BusXfer(OP_WRITE)
    /\ Goto("wa_hi")
    /\ UNCHANGED <<L, ret, counters, call, nocall>>

WaHi ==
    /\ At("wa_hi")
    /\ BusXfer(Hi8(L.wa.address))
    /\ Goto("wa_lo")
    /\ UNCHANGED <<L, ret, counters, call, nocall>>

WaLo ==
    /\ At("wa_lo")
    /\ BusXfer(Lo8(L.wa.address))
    /\ L' = [L EXCEPT !.wa.i = 0]
    /\ Goto("wa_data")
    /\ UNCHANGED <<ret, counters, call, nocall>>

\* spi_.transferByte(buffer[offset + i]);
WaData ==
    /\ At("wa_data")
    /\ L.wa.i < L.wa.chunk
    /\ \E b \in SrcByte(L.wa.buffer, L.wa.offset + L.wa.i) : BusXfer(b)
    /\ L' = [L EXCEPT !.wa.i = L.wa.i + 1]
    /\ UNCHANGED <<pc, ret, counters, call, nocall>>

WaCsHigh ==
    /\ At("wa_data")
    /\ ~(L.wa.i < L.wa.chunk)
    /\ BusCsHigh
    /\ Goto("wa_wait")
    /\ UNCHANGED <<L, ret, counters, call, nocall>>

WaWait ==
    /\ At("wa_wait")
    /\ CallFn("wu_poll", "wa_advance")
    /\ UNCHANGED <<L, ret, bus, counters, call, nocall>>

\* address += chunk; offset += chunk; remaining -= chunk;
WaAdvance_NoOffset ==
    /\ At("wa_advance")
    /\ L' = [L EXCEPT !.wa.address = L.wa.address + L.wa.chunk,
                      !.wa.remaining = L.wa.remaining - L.wa.chunk]
    /\ Goto("wa_loop")
    /\ UNCHANGED <<ret, bus, counters, call, nocall>>

WaAdvance ==
    /\ At("wa_advance")
    /\ L' = [L EXCEPT !.wa.address = L.wa.address + L.wa.chunk,
                      !.wa.offset = L.wa.offset + L.wa.chunk,
                      !.wa.remaining = L.wa.remaining - L.wa.chunk]
    /\ Goto("wa_loop")
    /\ UNCHANGED <<ret, bus, counters, call, nocall>>

----------------------------------------------------------------------------
(* The bit arithmetic shared by readBits and writeBits.                    *)

\* if (bitCount == 0 || bitCount > 32)
BadBitCount_ZeroOnly(bitCount) == bitCount = 0
BadBitCount(bitCount) == bitCount = 0 \/ bitCount > MAX_BITS

\* unsigned start_bit = (bits == 0) ? bitOffset : 0;
StartBit_EveryByte(bits, bitOffset) == bitOffset
StartBit(bits, bitOffset) == IF bits = 0 THEN bitOffset ELSE 0

\* std::min(8 - start_bit, bitCount - bits): unsigned, so 8 - start_bit wraps
\* to more than any bit count once start_bit exceeds 8.
BitsInByte(start_bit, bitCount, bits) ==
    IF start_bit <= 8 THEN Min(8 - start_bit, bitCount - bits)
    ELSE bitCount - bits

\* uint8_t mask = ((1u << bits_in_byte) - 1) << start_bit;
Mask_NoShift(bits_in_byte, start_bit) == ByteOf(0..(bits_in_byte - 1))
Mask(bits_in_byte, start_bit) == ByteOf(Shl32(0..(bits_in_byte - 1), start_bit))

\* uint8_t val = (byte & mask) >> start_bit;
Extract(byte, mask, start_bit) == ByteOf(Shr32(U32(AndByte(byte, mask)), start_bit))

\* byte = (byte & ~mask) | (((value >> bits_written) << start_bit) & mask);
Insert_NoClear(byte, mask, value, bits_written, start_bit) ==
    OrByte(byte, AndByte(ByteOf(Shl32(Shr32(value, bits_written), start_bit)), mask))
Insert(byte, mask, value, bits_written, start_bit) ==
    OrByte(AndByte(byte, NotByte(mask)),
           AndByte(ByteOf(Shl32(Shr32(value, bits_written), start_bit)), mask))

----------------------------------------------------------------------------
(* EEPROM25LC040A::readBits(address, bitOffset, bitCount)                  *)

RbitsReject ==
    /\ At("rbits_guard")
    /\ BadBitCount(L.rbits.bitCount)
    /\ ret' = [ret EXCEPT !.word = {}]
    /\ Finish("resultWord", {})
    /\ Return
    /\ UNCHANGED <<L, bus, counters, nocall>>

RbitsStart ==
    /\ At("rbits_guard")
    /\ ~BadBitCount(L.rbits.bitCount)
    /\ L' = [L EXCEPT !.rbits.result = {}, !.rbits.bits_read = 0,
                      !.rbits.byte_addr = L.rbits.address]
    /\ Goto("rbits_loop")
    /\ UNCHANGED <<ret, bus, counters, call, nocall>>

\* while (bits_read < bitCount) { uint8_t byte = readByte(byte_addr);
RbitsFetch ==
    /\ At("rbits_loop")
    /\ L.rbits.bits_read < L.rbits.bitCount
    /\ L' = [L EXCEPT !.rb.address = L.rbits.byte_addr]
    /\ CallFn("rb_cs_low", "rbits_acc")
    /\ UNCHANGED <<ret, bus, counters, call, nocall>>

RbitsAcc ==
    /\ At("rbits_acc")
    /\ LET r == L.rbits
           byte == ret.byte
           start_bit == StartBit(r.bits_read, r.bitOffset)
           bits_in_byte == BitsInByte(start_bit, r.bitCount, r.bits_read)
           mask == Mask(bits_in_byte, start_bit)
           val == Extract(byte, mask, start_bit)
       IN L' = [L EXCEPT !.rbits.result = r.result \cup Shl32(U32(val), r.bits_read),
                         !.rbits.bits_read = r.bits_read + bits_in_byte,
                         !.rbits.byte_addr = r.byte_addr + 1]
    /\ Goto("rbits_loop")
    /\ UNCHANGED <<ret, bus, counters, call, nocall>>

RbitsReturn ==
    /\ At("rbits_loop")
    /\ ~(L.rbits.bits_read < L.rbits.bitCount)
    /\ ret' = [ret EXCEPT !.word = L.rbits.result]
    /\ Finish("resultWord", L.rbits.result)
    /\ Return
    /\ UNCHANGED <<L, bus, counters, nocall>>

----------------------------------------------------------------------------
(* EEPROM25LC040A::writeBits(address, bitOffset, bitCount, value)          *)

WbitsReject ==
    /\ At("wbits_guard")
    /\ BadBitCount(L.wbits.bitCount)
    /\ Finish("result", 0)
    /\ Return
    /\ UNCHANGED <<L, ret, bus, counters, nocall>>

WbitsStart ==
    /\ At("wbits_guard")
    /\ ~BadBitCount(L.wbits.bitCount)
    /\ L' = [L EXCEPT !.wbits.bits_written = 0,
                      !.wbits.byte_addr = L.wbits.address]
    /\ Goto("wbits_loop")
    /\ UNCHANGED <<ret, bus, counters, call, nocall>>

\* while (bits_written < bitCount) { uint8_t byte = readByte(byte_addr);
WbitsFetch ==
    /\ At("wbits_loop")
    /\ L.wbits.bits_written < L.wbits.bitCount
    /\ L' = [L EXCEPT !.rb.address = L.wbits.byte_addr]
    /\ CallFn("rb_cs_low", "wbits_modify")
    /\ UNCHANGED <<ret, bus, counters, call, nocall>>

\* ...; writeByte(byte_addr, byte);
WbitsModify ==
    /\ At("wbits_modify")
    /\ LET w == L.wbits
           start_bit == StartBit(w.bits_written, w.bitOffset)
           bits_in_byte == BitsInByte(start_bit, w.bitCount, w.bits_written)
           mask == Mask(bits_in_byte, start_bit)
           byte == Insert(ret.byte, mask, w.value, w.bits_written, start_bit)
       IN L' = [L EXCEPT !.wbits.bits_in_byte = bits_in_byte,
                         !.wbits.byte = byte,
                         !.wb.address = w.byte_addr,
                         !.wb.value = byte]
    /\ CallFn("wb_enable", "wbits_advance")
    /\ UNCHANGED <<ret, bus, counters, call, nocall>>

\* bits_written += bits_in_byte; ++byte_addr;
WbitsAdvance_SameByte ==
    /\ At("wbits_advance")
    /\ L' = [L EXCEPT !.wbits.bits_written = L.wbits.bits_written + L.wbits.bits_in_byte]
    /\ Goto("wbits_loop")
    /\ UNCHANGED <<ret, bus, counters, call, nocall>>

WbitsAdvance ==
    /\ At("wbits_advance")
    /\ L' = [L EXCEPT !.wbits.bits_written = L.wbits.bits_written + L.wbits.bits_in_byte,
                      !.wbits.byte_addr = L.wbits.byte_addr + 1]
    /\ Goto("wbits_loop")
    /\ UNCHANGED <<ret, bus, counters, call, nocall>>

WbitsReturn ==
    /\ At("wbits_loop")
    /\ ~(L.wbits.bits_written < L.wbits.bitCount)
    /\ Finish("result", 0)
    /\ Return
    /\ UNCHANGED <<L, ret, bus, counters, nocall>>

----------------------------------------------------------------------------
(* EEPROM25LC040A::readBit(address, bit), writeBit(address, bit, value)    *)

\* return readBits(address, bit, 1) != 0;
RbitEnter ==
    /\ At("rbit")
    /\ L' = [L EXCEPT !.rbits.address = L.bit.address,
                      !.rbits.bitOffset = L.bit.bit,
                      !.rbits.bitCount = 1]
    /\ CallFn("rbits_guard", "rbit_ret")
    /\ UNCHANGED <<ret, bus, counters, call, nocall>>

RbitReturn ==
    /\ At("rbit_ret")
    /\ ret' = [ret EXCEPT !.byte = IF ret.word # {} THEN 1 ELSE 0]
    /\ Finish("resultFlag", ret.word # {})
    /\ Return
    /\ UNCHANGED <<L, bus, counters, nocall>>

\* writeBits(address, bit, 1, value ? 1u : 0u);
WbitEnter ==
    /\ At("wbit")
    /\ L' = [L EXCEPT !.wbits.address = L.bit.address,
                      !.wbits.bitOffset = L.bit.bit,
                      !.wbits.bitCount = 1,
                      !.wbits.value = IF L.bit.value THEN {0} ELSE {}]
    /\ CallFn("wbits_guard", "wbit_ret")
    /\ UNCHANGED <<ret, bus, counters, call, nocall>>

WbitReturn ==
    /\ At("wbit_ret")
    /\ Finish("result", 0)
    /\ Return
    /\ UNCHANGED <<L, ret, bus, counters, nocall>>

----------------------------------------------------------------------------
(* SPIBitBangingHelper::transferByte, one driver call per step, against a  *)
(* stub driver: read_miso returns the level last written to MOSI (echo) or *)
(* the next level of a fixed reply.                                        *)

XfIdle == [tx |-> 0, rx |-> 0, bit |-> 7, step |-> "idle", echo |-> TRUE,
           reply |-> DevShiftOut(0)]

\* driver_.write_mosi(mosi_value);
XfWriteMosi ==
    /\ xf.step = "mosi"
    /\ mosi' = MosiBit(xf.tx, xf.bit)
    /\ xlog' = Append(xlog, <<"write_mosi", MosiBit(xf.tx, xf.bit)>>)
    /\ xf' = [xf EXCEPT !.step = "clock"]
    /\ UNCHANGED <<pc, L, ret, bus, counters, call, prev, pre, ncalls, script0>>

\* driver_.pulse_clock();
XfPulseClock ==
    /\ xf.step = "clock"
    /\ xlog' = Append(xlog, <<"pulse_clock", 0>>)
    /\ xf' = [xf EXCEPT !.step = "miso"]
    /\ UNCHANGED <<pc, L, ret, bus, counters, call, prev, pre, ncalls, script0, mosi>>

\* const bool miso_value = driver_.read_miso(); rx_byte = ...; --bit
XfReadMiso ==
    /\ xf.step = "miso"
    /\ LET miso_value == IF xf.echo THEN mosi ELSE xf.reply[8 - xf.bit] IN
       /\ xlog' = Append(xlog, <<"read_miso", miso_value>>)
       /\ xf' = [xf EXCEPT !.rx = RxShift(xf.rx, miso_value),
                           !.bit = xf.bit - 1,
                           !.step = IF xf.bit - 1 >= 0 THEN "mosi" ELSE "done"]
    /\ UNCHANGED <<pc, L, ret, bus, counters, call, prev, pre, ncalls, script0, mosi>>

----------------------------------------------------------------------------
(* The public calls.                                                       *)

NoCall == [op |-> "none", address |-> 0, value |-> 0, word |-> {},
           flag |-> FALSE, buffer |-> NullBuf, length |-> 0,
           bitOffset |-> 0, bitCount |-> 0, done |-> FALSE,
           result |-> 0, resultWord |-> {}, resultFlag |-> FALSE,
           resultBuf |-> <<>>]

L0 == [rb |-> [address |-> 0, value |-> 0],
       rs |-> [status |-> 0],
       wb |-> [address |-> 0, value |-> 0],
       ra |-> [address |-> 0, buffer |-> NullBuf, length |-> 0, i |-> 0],
       wa |-> [address |-> 0, buffer |-> NullBuf, length |-> 0,
               remaining |-> 0, offset |-> 0, chunk |-> 0, i |-> 0],
       rbits |-> [address |-> 0, bitOffset |-> 0, bitCount |-> 0,
                  result |-> {}, bits_read |-> 0, byte_addr |-> 0],
       wbits |-> [address |-> 0, bitOffset |-> 0, bitCount |-> 0, value |-> {},
                  bits_written |-> 0, byte_addr |-> 0, byte |-> 0,
                  bits_in_byte |-> 0],
       bit |-> [address |-> 0, bit |-> 0, value |-> FALSE]]

StartCall(c, entry) ==
    /\ pc = <<>>
    /\ ncalls < MaxCalls
    /\ pc' = <<entry>>
    /\ call' = c
    /\ prev' = call
    /\ pre' = dev.mem
    /\ ncalls' = ncalls + 1
    /\ wframes' = <<>>
    /\ drv' = Drv0
    /\ UNCHANGED <<ret, cs, dev, prevFrame, fault, counters, xvars, script0>>

CallReadByte(A) ==
    \E a \in A :
       /\ L' = [L EXCEPT !.rb.address = a]
       /\ StartCall([NoCall EXCEPT !.op = "readByte", !.address = a], "rb_cs_low")

CallWriteByte(A, V) ==
    \E a \in A, v \in V :
       /\ L' = [L EXCEPT !.wb.address = a, !.wb.value = v]
       /\ StartCall([NoCall EXCEPT !.op = "writeByte", !.address = a, !.value = v],
                    "wb_enable")

\* Args: records [address, buffer, length]
CallReadArray(Args) ==
    \E x \in Args :
       /\ L' = [L EXCEPT !.ra.address = x.address, !.ra.buffer = x.buffer,
                         !.ra.length = x.length]
       /\ StartCall([NoCall EXCEPT !.op = "readArray", !.address = x.address,
                                   !.buffer = x.buffer, !.length = x.length],
                    "ra_guard")

CallWriteArray(Args) ==
    \E x \in Args :
       /\ L' = [L EXCEPT !.wa.address = x.address, !.wa.buffer = x.buffer,
                         !.wa.length = x.length]
       /\ StartCall([NoCall EXCEPT !.op = "writeArray", !.address = x.address,
                                   !.buffer = x.buffer, !.length = x.length],
                    "wa_guard")

\* Args: records [address, bitOffset, bitCount]
CallReadBits(Args) ==
    \E x \in Args :
       /\ L' = [L EXCEPT !.rbits.address = x.address,
                         !.rbits.bitOffset = x.bitOffset,
                         !.rbits.bitCount = x.bitCount]
       /\ StartCall([NoCall EXCEPT !.op = "readBits", !.address = x.address,
                                   !.bitOffset = x.bitOffset,
                                   !.bitCount = x.bitCount],
                    "rbits_guard")

\* Args: records [address, bitOffset, bitCount, value]
CallWriteBits(Args) ==
    \E x \in Args :
       /\ L' = [L EXCEPT !.wbits.address = x.address,
                         !.wbits.bitOffset = x.bitOffset,
                         !.wbits.bitCount = x.bitCount,
                         !.wbits.value = x.value]
       /\ StartCall([NoCall EXCEPT !.op = "writeBits", !.address = x.address,
                                   !.bitOffset = x.bitOffset,
                                   !.bitCount = x.bitCount, !.word = x.value],
                    "wbits_guard")

\* Args: records [address, bit]
CallReadBit(Args) ==
    \E x \in Args :
       /\ L' = [L EXCEPT !.bit.address = x.address, !.bit.bit = x.bit]
       /\ StartCall([NoCall EXCEPT !.op = "readBit", !.address = x.address,
                                   !.bitOffset = x.bit],
                    "rbit")

\* Args: records [address, bit, value]
CallWriteBit(Args) ==
    \E x \in Args :
       /\ L' = [L EXCEPT !.bit.address = x.address, !.bit.bit = x.bit,
                         !.bit.value = x.value]
       /\ StartCall([NoCall EXCEPT !.op = "writeBit", !.address = x.address,
                                   !.bitOffset = x.bit, !.flag = x.value],
                    "wbit")

----------------------------------------------------------------------------
(* Initial states.                                                         *)

Dev0(fill, faulty) ==
    [mem |-> NoMem, fill |-> fill, wel |-> FALSE, wipQ |-> <<>>,
     faulty |-> faulty, stuck |-> FALSE, frame |-> <<>>, ptr |-> 0]

\* Contents of the cells not yet written.
Fills == {0, 255}

InitWith(stack, d, x) ==
    /\ pc = stack
    /\ L = L0
    /\ ret = [byte |-> 0, word |-> {}]
    /\ cs = FALSE
    /\ dev = d
    /\ prevFrame = [op |-> 0, n |-> 0]
    /\ wframes = <<>>
    /\ drv = Drv0
    /\ nReads = 0
    /\ nDelays = 0
    /\ lastDelay = 0
    /\ fault = {}
    /\ call = NoCall
    /\ prev = NoCall
    /\ pre = NoMem
    /\ ncalls = 0
    /\ xf = x
    /\ mosi = 0
    /\ xlog = <<>>
    /\ script0 = d.wipQ

\* Any device: a faulty one may start a write cycle that never ends.
Init == \E fill \in Fills, faulty \in BOOLEAN :
           InitWith(<<>>, Dev0(fill, faulty), XfIdle)

\* A device whose write cycles all end.
InitHealthy == \E fill \in Fills : InitWith(<<>>, Dev0(fill, FALSE), XfIdle)

----------------------------------------------------------------------------
(* The steps of the member functions.                                      *)

ReadByteSteps == RbCsLow \/ RbOp \/ RbHi \/ RbLo \/ RbData \/ RbCsHigh
WriteEnableSteps == WeCsLow \/ WeOp \/ WeCsHigh
ReadStatusSteps == RsCsLow \/ RsOp \/ RsData \/ RsCsHigh
WaitSteps == WuPoll \/ WuBreak \/ WuBusy \/ WuDelay \/ ReadStatusSteps
WriteByteSteps ==
    \/ WbEnable \/ WbCsLow \/ WbOp \/ WbHi \/ WbLo \/ WbData \/ WbCsHigh
    \/ WbWait \/ WbRet
    \/ WriteEnableSteps \/ WaitSteps
ReadArraySteps == RaReject \/ RaCsLow \/ RaOp \/ RaHi \/ RaLo \/ RaData \/ RaCsHigh
WriteArraySteps ==
    \/ WaReject \/ WaStart \/ WaChunk \/ WaReturn \/ WaCsLow \/ WaOp \/ WaHi
    \/ WaLo \/ WaData \/ WaCsHigh \/ WaWait \/ WaAdvance
ReadBitsSteps == RbitsReject \/ RbitsStart \/ RbitsFetch \/ RbitsAcc \/ RbitsReturn
WriteBitsSteps ==
    \/ WbitsReject \/ WbitsStart \/ WbitsFetch \/ WbitsModify \/ WbitsAdvance
    \/ WbitsReturn
BitSteps == RbitEnter \/ RbitReturn \/ WbitEnter \/ WbitReturn

----------------------------------------------------------------------------
(* Array scenario: one writeArray, then readArray of the same span.        *)

ArrAddrs == {0, 10, 15, 505}
Seeds == {7, 129}
Source(seed, n) == [i \in 1..n |-> (seed + (37 * (i - 1))) % 256]
Blank(n) == [i \in 1..n |-> 238]

ArrWriteArgs ==
    {[address |-> a, buffer |-> BufOf(Source(s, n)), length |-> n] :
        a \in ArrAddrs, n \in 0..MaxLen, s \in Seeds}
    \cup {[address |-> a, buffer |-> NullBuf, length |-> n] :
             a \in ArrAddrs, n \in {0, 3}}

ArrayWrite == ncalls = 0 /\ CallWriteArray(ArrWriteArgs)

ArrayReadBack ==
    /\ call.op = "writeArray"
    /\ call.done
    /\ CallReadArray({[address |-> call.address,
                       buffer |-> IF call.buffer.null THEN NullBuf
                                  ELSE BufOf(Blank(IF call.length = 0 THEN 1
                                                   ELSE call.length)),
                       length |-> call.length]})

\* ... or a readByte of its first address.
ArrayReadByte ==
    /\ call.op = "writeArray"
    /\ call.done
    /\ CallReadByte({call.address})

NextArray ==
    \/ ArrayWrite \/ ArrayReadBack \/ ArrayReadByte
    \/ WriteArraySteps \/ ReadArraySteps \/ ReadByteSteps
    \/ WriteEnableSteps \/ WaitSteps

SpecArray == InitHealthy /\ [][NextArray]_vars

----------------------------------------------------------------------------
(* Byte scenario: one writeByte, then readByte of the same address.        *)

ByteVals == {0, 165, 255}

ByteWrite == ncalls = 0 /\ CallWriteByte(0..(CAPACITY_BYTES - 1), ByteVals)

ByteReadBack ==
    /\ call.op = "writeByte"
    /\ call.done
    /\ CallReadByte({call.address})

NextByte == ByteWrite \/ ByteReadBack \/ WriteByteSteps \/ ReadByteSteps

SpecByte == InitHealthy /\ [][NextByte]_vars

----------------------------------------------------------------------------
(* Bit-field scenario: one writeBits, then readBits of the same field.     *)

PatA == {0, 1, 2, 3, 9, 10, 12, 15, 16, 17, 22, 23, 24, 26, 29, 31}
PatB == (0..31) \ PatA
BitsAddrs == {7, 510}

BitsWriteArgs ==
    {[address |-> a, bitOffset |-> off, bitCount |-> n, value |-> v] :
        a \in BitsAddrs, off \in 0..7, n \in 0..(MAX_BITS + 1), v \in {PatA, PatB}}

BitsWrite == ncalls = 0 /\ CallWriteBits(BitsWriteArgs)

BitsReadBack ==
    /\ call.op = "writeBits"
    /\ call.done
    /\ CallReadBits({[address |-> call.address, bitOffset |-> call.bitOffset,
                      bitCount |-> call.bitCount]})

NextBits ==
    \/ BitsWrite \/ BitsReadBack
    \/ WriteBitsSteps \/ ReadBitsSteps \/ WriteByteSteps \/ ReadByteSteps

SpecBits == InitHealthy /\ [][NextBits]_vars

----------------------------------------------------------------------------
(* Bit-field read scenario: one readBits of a device that holds an image.  *)

ImageCells == {7, 8, 9, 511, 0, 1}
Image(seed) == [a \in ImageCells |-> (seed + (37 * a)) % 256]

InitImage ==
    \E fill \in Fills, seed \in Seeds :
       InitWith(<<>>, [Dev0(fill, FALSE) EXCEPT !.mem = Image(seed)], XfIdle)

BitsReadArgs ==
    {[address |-> a, bitOffset |-> off, bitCount |-> n] :
        a \in BitsAddrs, off \in 0..7, n \in 0..(MAX_BITS + 1)}

BitsRead == ncalls = 0 /\ CallReadBits(BitsReadArgs)

NextBitsRead == BitsRead \/ ReadBitsSteps \/ ReadByteSteps

SpecBitsRead == InitImage /\ [][NextBitsRead]_vars

----------------------------------------------------------------------------
(* Write scenario: one writeByte or one writeArray against a device whose  *)
(* write cycles all end, run by a program that takes every step it can.    *)

WritesCall ==
    /\ ncalls = 0
    /\ \/ CallWriteByte(ArrAddrs, ByteVals)
       \/ CallWriteArray(ArrWriteArgs)

NextWrites == WritesCall \/ WriteByteSteps \/ WriteArraySteps

SpecWrites ==
    InitHealthy /\ [][NextWrites]_vars /\ WF_vars(WriteByteSteps \/ WriteArraySteps)

----------------------------------------------------------------------------
(* Bit offsets at and past the end of the first byte, which no guard       *)
(* rejects: one call of readBits, writeBits, readBit or writeBit.  A loop  *)
(* is followed for MaxSpin bytes past its start address.                   *)

OffsetArgs ==
    {[address |-> 7, bitOffset |-> off, bitCount |-> n, value |-> PatA] :
        off \in {7, 8, 9}, n \in {0, 1, 9}}

OffsetCall ==
    /\ ncalls = 0
    /\ \/ CallReadBits({[address |-> x.address, bitOffset |-> x.bitOffset,
                         bitCount |-> x.bitCount] : x \in OffsetArgs})
       \/ CallWriteBits(OffsetArgs)
       \/ CallReadBit({[address |-> 7, bit |-> b] : b \in {7, 8, 9}})
       \/ CallWriteBit({[address |-> 7, bit |-> b, value |-> TRUE] : b \in {7, 8, 9}})

WithinSpin ==
    /\ L.rbits.byte_addr - L.rbits.address <= MaxSpin
    /\ L.wbits.byte_addr - L.wbits.address <= MaxSpin

NextOffsets ==
    \/ OffsetCall
    \/ /\ WithinSpin
       /\ \/ ReadBitsSteps \/ WriteBitsSteps \/ BitSteps
          \/ WriteByteSteps \/ ReadByteSteps

SpecOffsets == InitHealthy /\ [][NextOffsets]_vars

----------------------------------------------------------------------------
(* Any sequence of public calls, each with arguments from a small set.     *)

GenArray == {[address |-> 14, buffer |-> BufOf(Source(7, 3)), length |-> 3],
             [address |-> 14, buffer |-> NullBuf, length |-> 3]}
GenBits == {[address |-> 15, bitOffset |-> 6, bitCount |-> 4, value |-> {0, 2, 3}],
            [address |-> 15, bitOffset |-> 6, bitCount |-> 0, value |-> {0}]}

PublicCall ==
    \/ CallReadByte({14})
    \/ CallWriteByte({14}, {165})
    \/ CallReadArray({[x EXCEPT !.buffer = IF x.buffer.null THEN NullBuf
                                           ELSE BufOf(Blank(x.length))] :
                        x \in GenArray})
    \/ CallWriteArray(GenArray)
    \/ CallReadBit({[address |-> 15, bit |-> 2]})
    \/ CallWriteBit({[address |-> 15, bit |-> 2, value |-> TRUE]})
    \/ CallReadBits({[address |-> x.address, bitOffset |-> x.bitOffset,
                      bitCount |-> x.bitCount] : x \in GenBits})
    \/ CallWriteBits(GenBits)

Next ==
    \/ PublicCall
    \/ ReadByteSteps \/ WriteByteSteps \/ ReadArraySteps \/ WriteArraySteps
    \/ ReadBitsSteps \/ WriteBitsSteps \/ BitSteps

Spec == Init /\ [][Next]_vars

\* The program is sequential: inside a call, the step that can be taken is
\* taken.  Whether the caller makes another call is left open.
ProgramStep ==
    \/ ReadByteSteps \/ WriteByteSteps \/ ReadArraySteps \/ WriteArraySteps
    \/ ReadBitsSteps \/ WriteBitsSteps \/ BitSteps

FairSpec == Spec /\ WF_vars(ProgramStep)

----------------------------------------------------------------------------
(* waitUntilWriteComplete against a stub whose status reads return a given *)
(* sequence, then 0x01 for ever (stuck) or 0x00.                           *)

StatusVals == {0, 1, 2, 3, 254, 255}

RECURSIVE SeqsUpTo(_, _)
SeqsUpTo(S, n) ==
    IF n = 0 THEN {<<>>}
    ELSE LET shorter == SeqsUpTo(S, n - 1)
         IN shorter \cup {Append(q, x) : q \in shorter, x \in S}

InitWait ==
    \E script \in SeqsUpTo(StatusVals, MaxPolls), st \in BOOLEAN :
       InitWith(<<"wu_poll">>,
                [Dev0(255, st) EXCEPT !.wipQ = script, !.stuck = st], XfIdle)

NextWait == WaitSteps

SpecWait == InitWait /\ [][NextWait]_vars

----------------------------------------------------------------------------
(* transferByte alone against the stub driver.                             *)

\* Fixed replies of the stub: 0xA5 reads the same in both bit orders, 0x3A
\* does not.
Replies == {165, 58}

InitXfer ==
    \E tx \in Byte, r \in {-1} \cup Replies :
       InitWith(<<>>, Dev0(255, FALSE),
                [XfIdle EXCEPT !.tx = tx, !.step = "mosi",
                               !.echo = (r = -1),
                               !.reply = DevShiftOut(IF r = -1 THEN 0 ELSE r)])

NextXfer == XfWriteMosi \/ XfPulseClock \/ XfReadMiso

SpecXfer == InitXfer /\ [][NextXfer]_vars

----------------------------------------------------------------------------
\* C1: every WRITE frame issued by writeArray (non-null buffer, length >= 1)
\* carries c >= 1 data bytes from start address s with (s mod 16) + c <= 16,
\* so no frame spans a page boundary; the frame being sent obeys the same
\* limit at every byte.
C1_FrameInOnePage ==
    (call.op = "writeArray") =>
       /\ \A k \in DOMAIN wframes :
             /\ Len(wframes[k].data) >= 1
             /\ (wframes[k].addr % PAGE_SIZE) + Len(wframes[k].data) <= PAGE_SIZE
       /\ (cs /\ Len(dev.frame) >= 3 /\ dev.frame[1] = OP_WRITE) =>
             (dev.frame[3] % PAGE_SIZE) + (Len(dev.frame) - 3) <= PAGE_SIZE

C1_Witness ==
    /\ call.op = "writeArray"
    /\ call.done
    /\ call.address % PAGE_SIZE # 0
    /\ Len(wframes) >= 2
    /\ (wframes[1].addr % PAGE_SIZE) + Len(wframes[1].data) = PAGE_SIZE

\* C2: writeArray(address, bytes) followed by readArray(address, length) of
\* the same span returns exactly the bytes written, also when the span
\* straddles page boundaries.
C2_ArrayRoundTrip ==
    ( /\ call.op = "readArray" /\ call.done
      /\ prev.op = "writeArray" /\ prev.done
      /\ ~prev.buffer.null /\ prev.length >= 1
      /\ call.address = prev.address /\ call.length = prev.length )
    => call.resultBuf = prev.buffer.data

C2_Witness ==
    /\ call.op = "readArray" /\ call.done
    /\ prev.op = "writeArray" /\ prev.done
    /\ prev.address = 15 /\ prev.length = 20
    /\ call.address = 15 /\ call.length = 20
    /\ call.resultBuf = prev.buffer.data

\* The split of [address, address + length) at the multiples of 16.
SplitCount(address, length) ==
    (((address + length) - 1) \div PAGE_SIZE) - (address \div PAGE_SIZE) + 1

SplitFrame(address, data, k) ==
    LET page == (address \div PAGE_SIZE) + (k - 1)
        from == IF k = 1 THEN address ELSE page * PAGE_SIZE
        upto == Min(address + Len(data), (page + 1) * PAGE_SIZE)
    IN [addr |-> from % 65536,
        data |-> SubSeq(data, (from - address) + 1, upto - address)]

\* C7: the WRITE frames of writeArray are exactly the split of the span at
\* the multiples of 16, in increasing address order, each carrying
\* min(remaining, 16 - (address mod 16)) consecutive source bytes; their
\* byte counts sum to length, their number is
\* floor((address+length-1)/16) - floor(address/16) + 1; and the frame that
\* follows each WRITE frame is the first status read of a poll loop.
C7_FramesAreTheSplit ==
    (call.op = "writeArray" /\ ~call.buffer.null /\ call.length >= 1) =>
       /\ Len(wframes) <= SplitCount(call.address, call.length)
       /\ \A k \in DOMAIN wframes :
             wframes[k] = SplitFrame(call.address, call.buffer.data, k)
       /\ call.done => Len(wframes) = SplitCount(call.address, call.length)
       /\ (prevFrame.op = OP_WRITE /\ ~call.done) =>
             Top \in {"wa_wait", "wu_poll", "rs_cs_low", "rs_op", "rs_data",
                      "rs_cs_high"}

C7_Witness ==
    /\ call.op = "writeArray" /\ call.done
    /\ call.address = 10 /\ call.length = 20
    /\ Len(wframes) = 2
    /\ wframes[1].addr = 10 /\ Len(wframes[1].data) = 6
    /\ wframes[2].addr = 16 /\ Len(wframes[2].data) = 14


\* C3: for every address a in [0,512) and byte v, writeByte(a, v) followed
\* by readByte(a) returns v.
C3_ByteRoundTrip ==
    ( /\ call.op = "readByte" /\ call.done
      /\ prev.op = "writeByte" /\ prev.done
      /\ call.address = prev.address )
    => call.result = prev.value

C3_Witness ==
    /\ call.op = "readByte" /\ call.done
    /\ prev.op = "writeByte" /\ prev.done
    /\ prev.address = 300 /\ call.address = 300
    /\ prev.value = 165 /\ call.result = 165
    /\ dev.fill = 255

\* C4: in every sequence of public calls, whenever a frame whose first byte
\* is WRITE (0x02) is on the bus, the frame completed just before it is one
\* whole WREN frame (cs_low, one transfer of 0x06, cs_high), with no other
\* frame between them.
C4_WriteAfterWren ==
    (cs /\ Len(dev.frame) >= 1 /\ dev.frame[1] = OP_WRITE)
    => prevFrame = [op |-> OP_WREN, n |-> 1]

C4_Witness ==
    /\ ncalls = 2
    /\ prev.op = "writeByte"
    /\ call.op = "writeArray"
    /\ Len(wframes) = 1
    /\ cs /\ Len(dev.frame) = 4 /\ dev.frame[1] = OP_WRITE
    /\ prevFrame = [op |-> OP_WREN, n |-> 1]

\* The low n bits of a 32-bit value: value & ((1 << n) - 1).
LowBits(value, n) == value \cap (0..(n - 1))

\* C5: for bitCount n in 1..32, bitOffset off in 0..7, any address and any
\* value, writeBits(a, off, n, value) followed by readBits(a, off, n)
\* returns the low n bits of value.
C5_BitsRoundTrip ==
    ( /\ call.op = "readBits" /\ call.done
      /\ prev.op = "writeBits" /\ prev.done
      /\ prev.bitCount \in 1..MAX_BITS /\ prev.bitOffset \in 0..7
      /\ call.address = prev.address /\ call.bitOffset = prev.bitOffset
      /\ call.bitCount = prev.bitCount )
    => call.resultWord = LowBits(prev.word, prev.bitCount)

C5_Witness ==
    /\ call.op = "readBits" /\ call.done
    /\ prev.op = "writeBits" /\ prev.done
    /\ prev.bitCount = 13 /\ prev.bitOffset = 5 /\ prev.word = PatA
    /\ call.bitCount = 13 /\ call.bitOffset = 5
    /\ call.resultWord = {0, 1, 2, 3, 9, 10, 12}
    /\ dev.fill = 255

\* Bit j of device cell c lies in the field [off, off + n) counted from byte a.
InField(a, off, n, c, j) ==
    \E q \in off..((off + n) - 1) :
       /\ (a + (q \div 8)) % CAPACITY_BYTES = c
       /\ q % 8 = j

CellBefore(c) == IF c \in DOMAIN pre THEN pre[c] ELSE dev.fill

\* C6: for bitCount n in 1..32 and bitOffset off in 0..7, writeBits leaves
\* every device bit outside [off, off + n) counted from byte a at the value
\* it had before the call, at every step of the call and after it.
C6_BitsOutsideKept ==
    ( /\ call.op = "writeBits"
      /\ call.bitCount \in 1..MAX_BITS /\ call.bitOffset \in 0..7 )
    => \A c \in (DOMAIN dev.mem) \cup (DOMAIN pre) : \A j \in 0..7 :
          InField(call.address, call.bitOffset, call.bitCount, c, j)
          \/ Bit(MemAt(dev, c), j) = Bit(CellBefore(c), j)

C6_Witness ==
    /\ call.op = "writeBits" /\ call.done
    /\ call.address = 7 /\ call.bitOffset = 5 /\ call.bitCount = 13
    /\ call.word = PatB
    /\ dev.fill = 255
    /\ MemAt(dev, 7) = 31
    /\ MemAt(dev, 8) = 62
    /\ MemAt(dev, 9) = 253

\* The status the stub reports at its i-th read, and the number of leading
\* reads that report WIP.
StubStatus(i) == IF i <= Len(script0) THEN script0[i]
                 ELSE IF dev.stuck THEN 1 ELSE 0
BusyReads ==
    IF \E i \in 1..(Len(script0) + 1) : Bit(StubStatus(i), 0) = 0
    THEN (CHOOSE i \in 1..(Len(script0) + 1) :
             /\ Bit(StubStatus(i), 0) = 0
             /\ \A h \in 1..(i - 1) : Bit(StubStatus(h), 0) = 1) - 1
    ELSE CountCap

\* C8: against a status sequence whose first k reads have bit 0 set and whose
\* (k+1)-th read has bit 0 clear, waitUntilWriteComplete leaves its loop after
\* exactly k + 1 status reads and k calls of delay_us(10), one after each busy
\* read, and returns only after a read with bit 0 clear; no other bit of the
\* status matters.
C8_PollCounts ==
    /\ At("wu_test") =>
          /\ nReads < CountCap => nDelays = nReads - 1
          /\ (Bit(ret.byte, 0) = 0) => (nReads = BusyReads + 1 /\ nDelays = BusyReads)
          /\ (Bit(ret.byte, 0) = 1) => nReads <= BusyReads
    /\ At("wu_delay") => (Bit(ret.byte, 0) = 1 /\ (nReads < CountCap => nDelays = nReads - 1))
    /\ At("wu_poll") => (nReads < CountCap => nDelays = nReads)
    /\ nDelays > 0 => lastDelay = POLL_DELAY_US
    /\ (pc = <<>>) => Bit(ret.byte, 0) = 0

C8_Witness ==
    /\ script0 = <<1, 1, 0>>
    /\ At("wu_test")
    /\ ret.byte = 0
    /\ nReads = 3
    /\ nDelays = 2

\* C9: there is no timeout: once the device never clears WIP, the running
\* call (waitUntilWriteComplete inside writeByte, writeArray or writeBits)
\* never returns and keeps issuing status reads and delay_us(10) calls for
\* ever.
C9_NoTimeout ==
    /\ [](dev.stuck => pc # <<>>)
    /\ []<>(dev.stuck => At("rs_data"))
    /\ []<>(dev.stuck => (At("wu_delay") /\ lastDelay = POLL_DELAY_US))

C9_Witness ==
    /\ dev.stuck
    /\ call.op = "writeBits"
    /\ At("wu_delay")
    /\ nDelays >= 2

\* C10: against a driver that echoes MOSI onto MISO, transferByte returns its
\* argument for every byte 0..255, and after each bit the accumulator holds
\* the bits of the argument sent so far, most significant first.
C10_EchoRoundTrip ==
    xf.echo =>
       /\ xf.step \in {"mosi", "done"} => xf.rx = xf.tx \div Pow2(xf.bit + 1)
       /\ xf.step = "done" => xf.rx = xf.tx

C10_Witness ==
    /\ xf.echo
    /\ xf.step = "done"
    /\ xf.tx = 165
    /\ xf.rx = 165
    /\ Len(xlog) = 24

\* C11: readBits and writeBits called with bitCount = 0 or bitCount > 32 make
\* no driver call at all (so no frame, no transfer, no chip-select change and
\* no delay), leave the device contents as they were, and readBits returns 0.
C11_NoOpOutsideRange ==
    ( /\ call.op \in {"readBits", "writeBits"}
      /\ (call.bitCount = 0 \/ call.bitCount > MAX_BITS) )
    => /\ ~drv.any /\ drv.frames = <<>> /\ drv.rx = <<>>
       /\ ~cs /\ fault = {}
       /\ dev.mem = pre
       /\ nReads = 0 /\ nDelays = 0
       /\ (call.op = "readBits" /\ call.done) => call.resultWord = {}

C11_Witness ==
    /\ call.op = "readBits" /\ call.done
    /\ call.bitCount = MAX_BITS + 1 /\ call.bitOffset = 3 /\ call.address = 510
    /\ prev.op = "writeBits" /\ prev.done /\ prev.bitCount = MAX_BITS + 1
    /\ prev.word = PatA
    /\ ~drv.any

\* C12: writeArray and readArray called with length 0 or a null buffer make
\* no driver call at all (no transfer, no chip-select change), leave the
\* device contents as they were, and readArray leaves the destination buffer
\* as it was.
C12_NoOpOnEmpty ==
    ( /\ call.op \in {"readArray", "writeArray"}
      /\ (call.buffer.null \/ call.length = 0) )
    => /\ ~drv.any /\ drv.frames = <<>> /\ drv.rx = <<>>
       /\ ~cs /\ fault = {}
       /\ dev.mem = pre
       /\ call.op = "readArray" =>
             /\ L.ra.buffer = call.buffer
             /\ call.done => call.resultBuf = call.buffer.data

C12_Witness ==
    /\ call.op = "readArray" /\ call.done
    /\ ~call.buffer.null /\ call.length = 0 /\ call.resultBuf = Blank(1)
    /\ prev.op = "writeArray" /\ prev.done /\ prev.length = 0
    /\ call.address = 505
    /\ ~drv.any

\* C13: over any sequence of public calls starting with chip-select
\* deasserted, cs_low and cs_high alternate (no cs_low while asserted, no
\* cs_high while deasserted), every transferByte happens while chip-select is
\* asserted, delay_us only while it is deasserted, and no call is left with
\* chip-select asserted.
C13_ChipSelectFraming ==
    /\ fault = {}
    /\ (pc = <<>>) => ~cs
    /\ call.done => ~cs
    /\ cs => drv.any

C13_Witness ==
    /\ ncalls = 2
    /\ prev.op = "writeBits" /\ prev.done /\ prev.bitCount = 4
    /\ call.op = "writeArray" /\ call.done /\ ~call.buffer.null
    /\ Len(drv.frames) = 6
    /\ ~cs
    /\ fault = {}

\* The frame closed last in the running public call.
LastFrame == IF drv.frames = <<>> THEN <<>> ELSE drv.frames[Len(drv.frames)]

\* C14: no command is sent to a busy device.  The frame after a WRITE frame
\* is a status read; a frame that is no status read is only opened when the
\* status read before it (if any) returned WIP = 0 and the device is in no
\* write cycle; and a call returns only after a status read with WIP = 0
\* once it has written.
C14_NoCommandWhileBusy ==
    /\ \A k \in 1..(Len(drv.frames) - 1) :
          drv.frames[k][1] = OP_WRITE => drv.frames[k + 1] = <<OP_RDSR, DUMMY>>
    /\ (cs /\ dev.frame # <<>> /\ LastFrame # <<>> /\ LastFrame[1] = OP_WRITE)
          => dev.frame[1] = OP_RDSR
    /\ (cs /\ dev.frame # <<>> /\ dev.frame[1] # OP_RDSR)
          => /\ ~DevBusy(dev)
             /\ (LastFrame # <<>> /\ LastFrame[1] = OP_RDSR)
                   => Bit(L.rs.status, 0) = 0
    /\ (pc = <<>> /\ drv.frames # <<>>)
          => /\ LastFrame[1] # OP_WRITE
             /\ ~DevBusy(dev)
             /\ LastFrame[1] = OP_RDSR => (Bit(ret.byte, 0) = 0 /\ Bit(drv.rx[2], 0) = 0)

C14_Witness ==
    /\ call.op = "writeBits" /\ call.bitCount = 4
    /\ cs /\ dev.frame = <<OP_READ>>
    /\ Len(drv.frames) = 4
    /\ LastFrame = <<OP_RDSR, DUMMY>>
    /\ nReads = 0
    /\ ~DevBusy(dev)

\* The reference value of the n-bit field at bit off of byte a: bit i is bit
\* (off + i) mod 8 of the device byte at a + (off + i) div 8 (the device
\* decodes the low 9 address bits), and no bit at n or above is set.
RefBits(a, off, n) ==
    {i \in 0..(n - 1) :
        Bit(MemAt(dev, (a + ((off + i) \div 8)) % CAPACITY_BYTES), (off + i) % 8) = 1}

\* C15: for bitCount n in 1..32 and bitOffset off in 0..7, readBits(a, off, n)
\* returns the reference value: the first bit read is the least significant
\* bit of the result, bits continue from bit 0 of each following byte, and
\* the result bits at positions n and above are 0.
C15_ReadBitsReference ==
    ( /\ call.op = "readBits" /\ call.done
      /\ call.bitCount \in 1..MAX_BITS /\ call.bitOffset \in 0..7 )
    => call.resultWord = RefBits(call.address, call.bitOffset, call.bitCount)

C15_Witness ==
    /\ call.op = "readBits" /\ call.done
    /\ call.address = 7 /\ call.bitOffset = 5 /\ call.bitCount = 13
    /\ MemAt(dev, 7) = 10 /\ MemAt(dev, 8) = 47 /\ MemAt(dev, 9) = 84
    /\ call.resultWord = {3, 4, 5, 6, 8}

\* The bytes sent in one READ frame for n bytes from address a.
ReadFrame(a, n) == <<OP_READ, Hi8(a), Lo8(a)>> \o [i \in 1..n |-> DUMMY]

IsPrefix(p, q) == Len(p) <= Len(q) /\ p = SubSeq(q, 1, Len(p))

\* C16: readArray(address, buffer, length) with a buffer and length >= 1
\* makes one chip-select assertion in which it sends 0x03, the address high
\* byte, the address low byte and then length dummy bytes 0xFF; buffer[i] is
\* the byte received in transfer 4 + i; and readByte(address) makes the same
\* driver calls as readArray of length 1 and returns the byte of transfer 4.
C16_ReadArrayFrame ==
    /\ ( /\ call.op = "readArray"
         /\ ~call.buffer.null /\ call.length >= 1 )
       => /\ cs => (drv.frames = <<>>
                    /\ IsPrefix(dev.frame, ReadFrame(call.address, call.length))
                    /\ Len(drv.rx) = Len(dev.frame))
          /\ (~cs /\ drv.any) => call.done
          /\ call.done =>
                /\ drv.frames = <<ReadFrame(call.address, call.length)>>
                /\ Len(drv.rx) = 3 + call.length
                /\ Len(call.resultBuf) = Len(call.buffer.data)
                /\ \A i \in 0..(Len(call.resultBuf) - 1) :
                      call.resultBuf[i + 1] = IF i < call.length THEN drv.rx[4 + i]
                                              ELSE call.buffer.data[i + 1]
    /\ (call.op = "readByte" /\ call.done)
       => /\ drv.frames = <<ReadFrame(call.address, 1)>>
          /\ Len(drv.rx) = 4
          /\ call.result = drv.rx[4]

C16_Witness ==
    /\ call.op = "readArray" /\ call.done
    /\ call.address = 505 /\ call.length = 1
    /\ drv.frames = <<<<OP_READ, 1, 249, DUMMY>>>>
    /\ drv.rx = <<255, 255, 255, 129>>
    /\ call.resultBuf = <<129>>

\* The driver call made k-th by a transferByte.
XferCall(k) == IF k % 3 = 1 THEN "write_mosi"
               ELSE IF k % 3 = 2 THEN "pulse_clock"
               ELSE "read_miso"

\* C17: transferByte(tx) makes exactly 24 driver calls, write_mosi,
\* pulse_clock, read_miso eight times over; the i-th write_mosi (i = 0..7)
\* drives bit 7 - i of tx, the i-th read_miso sample is bit 7 - i of the byte
\* returned, and there is no cs_low, cs_high or delay_us among the calls.
C17_TransferCalls ==
    /\ Len(xlog) <= 24
    /\ \A k \in DOMAIN xlog : xlog[k][1] = XferCall(k)
    /\ \A i \in 0..7 :
          ((3 * i) + 1 <= Len(xlog)) => xlog[(3 * i) + 1][2] = Bit(xf.tx, 7 - i)
    /\ (xf.step = "done") <=> (Len(xlog) = 24)
    /\ (xf.step = "done") =>
          \A i \in 0..7 : Bit(xf.rx, 7 - i) = xlog[(3 * i) + 3][2]
    /\ ~cs /\ ~drv.any /\ nDelays = 0

C17_Witness ==
    /\ ~xf.echo
    /\ xf.step = "done"
    /\ xf.tx = 200
    /\ xf.rx = 58
    /\ Len(xlog) = 24
    /\ xlog[1] = <<"write_mosi", 1>>
    /\ xlog[24] = <<"read_miso", 0>>

\* The bytes a field of n bits at bit off spans: ceil((off + n) / 8).
SpanBytes(off, n) == ((off + n) + 7) \div 8

\* The j-th frame of a writeBits at address a is as it must be: for each byte
\* a READ of it, a WREN, a WRITE of one byte to it, a status read.
WriteBitsFrame(a, j, f) ==
    LET k == (j - 1) \div 4
        r == (j - 1) % 4
    IN  IF r = 0 THEN f = ReadFrame(a + k, 1)
        ELSE IF r = 1 THEN f = <<OP_WREN>>
        ELSE IF r = 2 THEN /\ Len(f) = 4
                           /\ SubSeq(f, 1, 3) = <<OP_WRITE, Hi8(a + k), Lo8(a + k)>>
        ELSE f = <<OP_RDSR, DUMMY>>

\* C18: for bitCount n in 1..32 and bitOffset off in 0..7, writeBits touches
\* exactly the ceil((off + n) / 8) bytes from a on, in increasing order, each
\* with one readByte followed by one writeByte (WREN frame, one-byte WRITE
\* frame, status poll); readBits with the same arguments makes exactly
\* ceil((off + n) / 8) readByte calls and writes nothing.
C18_OneCyclePerByte ==
    (call.bitCount \in 1..MAX_BITS /\ call.bitOffset \in 0..7) =>
       /\ (call.op = "writeBits") =>
             /\ \A j \in DOMAIN drv.frames :
                   WriteBitsFrame(call.address, j, drv.frames[j])
             /\ Len(drv.frames) <= 4 * SpanBytes(call.bitOffset, call.bitCount)
             /\ call.done =>
                   /\ Len(drv.frames) = 4 * SpanBytes(call.bitOffset, call.bitCount)
                   /\ Len(wframes) = SpanBytes(call.bitOffset, call.bitCount)
       /\ (call.op = "readBits") =>
             /\ \A j \in DOMAIN drv.frames :
                   drv.frames[j] = ReadFrame(call.address + (j - 1), 1)
             /\ Len(drv.frames) <= SpanBytes(call.bitOffset, call.bitCount)
             /\ call.done =>
                   Len(drv.frames) = SpanBytes(call.bitOffset, call.bitCount)
             /\ wframes = <<>>
             /\ dev.mem = pre

C18_Witness ==
    /\ call.op = "writeBits" /\ call.done
    /\ call.address = 510 /\ call.bitOffset = 7 /\ call.bitCount = 26
    /\ Len(drv.frames) = 20
    /\ drv.frames[17] = <<OP_READ, 2, 2, DUMMY>>
    /\ drv.frames[18] = <<OP_WREN>>
    /\ Len(wframes) = 5
    /\ wframes[5].addr = 514

\* C19: readBits and writeBits (and readBit, writeBit) end for every
\* bitOffset, also 8 and above, when bitCount is in 1..32: every iteration
\* of their loops consumes at least one bit, so a loop has made at most
\* bitCount iterations at any time.
C19_LoopConsumes ==
    /\ At("rbits_acc") =>
          /\ BitsInByte(StartBit(L.rbits.bits_read, L.rbits.bitOffset),
                        L.rbits.bitCount, L.rbits.bits_read) >= 1
          /\ (L.rbits.byte_addr - L.rbits.address) + 1 <= L.rbits.bitCount
    /\ At("wbits_modify") =>
          /\ BitsInByte(StartBit(L.wbits.bits_written, L.wbits.bitOffset),
                        L.wbits.bitCount, L.wbits.bits_written) >= 1
          /\ (L.wbits.byte_addr - L.wbits.address) + 1 <= L.wbits.bitCount

\* writeArray is inside its loop, and past the line that computes chunk.
InWaLoop ==
    pc # <<>> /\ pc[Len(pc)] \in {"wa_loop", "wa_cs_low", "wa_op", "wa_hi", "wa_lo",
                                  "wa_data", "wa_wait", "wa_advance"}
ChunkSet == InWaLoop /\ pc[Len(pc)] # "wa_loop"

\* C20: against a device that ends every write cycle, every writeByte and
\* every writeArray returns.  In the writeArray loop offset + remaining =
\* length, each chunk has at least one byte and at most remaining bytes, every
\* source byte sent lies in buffer[0 .. length - 1], and each pass of the loop
\* makes remaining smaller.
C20_WritesReturn ==
    /\ [](InWaLoop => (L.wa.offset + L.wa.remaining = L.wa.length
                       /\ L.wa.remaining >= 0))
    /\ [](ChunkSet => (L.wa.chunk >= 1 /\ L.wa.chunk <= L.wa.remaining))
    /\ []((At("wa_data") /\ L.wa.i < L.wa.chunk)
             => (L.wa.offset + L.wa.i) + 1 \in DOMAIN L.wa.buffer.data)
    /\ [][At("wa_advance") => L.wa.remaining' < L.wa.remaining]_vars
    /\ [](call.op \in {"writeByte", "writeArray"} => <>call.done)

C20_Witness ==
    /\ call.op = "writeArray" /\ call.done
    /\ call.address = 10 /\ call.length = 20
    /\ L.wa.remaining = 0 /\ L.wa.offset = 20 /\ L.wa.address = 30
    /\ Len(wframes) = 2
    /\ ~DevBusy(dev)

====
